---- MODULE Spec2Model ----
(***************************************************************************)
(* Transcript retrieval and LLM summarisation pipeline of                  *)
(* context_analysis.py: get_video_transcript, format_time,                 *)
(* get_transcript_with_timestamps, summarize_transcript and                *)
(* analyze_video_content.                                                  *)
(*                                                                         *)
(* Python values are tagged records (field t is the Python type).  A       *)
(* Python str is a sequence of characters; a literal that the code never   *)
(* iterates is kept in one piece.  A float number of seconds is held in    *)
(* tenths of a second, so 59.9 s is 599.                                   *)
(***************************************************************************)
EXTENDS Integers, Sequences, FiniteSets, TLC

VARIABLES
    OPENAI_API_KEY,     \* module global read from the environment at import
    llm_clients,        \* number of ChatOpenAI(...) constructor calls so far
    llm_log,            \* prompts received by the chat-completion service
    fn,                 \* the function the caller invoked last
    video,              \* caption service behaviour for that call
    seconds,            \* argument of format_time, in tenths of a second
    transcript_text,    \* argument of summarize_transcript
    llm,                \* LLM service behaviour for that call
    transcript,         \* local of get_video_transcript: the chosen track
    is_auto_generated,  \* local of get_video_transcript
    ret,                \* value returned to the caller
    raised,             \* exception that reached the caller, or "none"
    printed,            \* diagnostics written to stdout during the call
    executed            \* code of the reply that the interpreter ran

vars == <<OPENAI_API_KEY, llm_clients, llm_log, fn, video, seconds,
          transcript_text, llm, transcript, is_auto_generated, ret, raised,
          printed, executed>>

(***************************************************************************)
(* Bounds                                                                  *)
(***************************************************************************)
MaxOffsetSeconds == 7300
MaxClients == 2

(***************************************************************************)
(* Python values                                                           *)
(***************************************************************************)
PyNone == [t |-> "None"]

PyStr(s) == [t |-> "str", s |-> s]

PyInt(n) == [t |-> "int", n |-> n]

PyList(xs) == [t |-> "list", items |-> xs]

PyDict(d) == [t |-> "dict", d |-> d]

NoValue == [t |-> "no value"]

\* "not x" of Python for the values that reach a truth test here
Falsy(v) ==
    \/ v.t = "None"
    \/ v.t = "str" /\ v.s = <<>>

\* "except Exception" does not catch SystemExit or KeyboardInterrupt
IsException(e) == e \notin {"none", "SystemExit", "KeyboardInterrupt"}

Digit(d) == <<"0", "1", "2", "3", "4", "5", "6", "7", "8", "9">>[d + 1]

RECURSIVE Decimal(_)
Decimal(n) ==
    IF n < 10 THEN <<Digit(n)>>
    ELSE Decimal(n \div 10) \o <<Digit(n % 10)>>

\* the format specification 02d: at least two digits, padded with zeros
Fmt02d(n) == IF n < 10 THEN <<"0">> \o Decimal(n) ELSE Decimal(n)

\* str(v), as an f-string renders a value
StrOf(v) ==
    CASE v.t = "str" -> v.s
      [] v.t = "int" -> Decimal(v.n)
      [] v.t = "None" -> <<"N", "o", "n", "e">>

\* sep.join(parts)
RECURSIVE Join(_, _)
Join(sep, parts) ==
    IF parts = <<>> THEN <<>>
    ELSE IF Len(parts) = 1 THEN Head(parts)
    ELSE Head(parts) \o sep \o Join(sep, Tail(parts))

(***************************************************************************)
(* format_time                                                             *)
(***************************************************************************)
format_time_always_hours(tenths) ==
    LET hours == tenths \div 36000
        minutes == (tenths % 36000) \div 600
        secs == (tenths % 600) \div 10
    IN Fmt02d(hours) \o <<":">> \o Fmt02d(minutes) \o <<":">> \o Fmt02d(secs)

format_time(tenths) ==
    LET hours == tenths \div 36000
        minutes == (tenths % 36000) \div 600
        secs == (tenths % 600) \div 10
    IN IF hours > 0
       THEN Fmt02d(hours) \o <<":">> \o Fmt02d(minutes) \o <<":">> \o Fmt02d(secs)
       ELSE Fmt02d(minutes) \o <<":">> \o Fmt02d(secs)

(***************************************************************************)
(* Caption service (youtube_transcript_api), as the code uses it           *)
(***************************************************************************)
Track(lang, generated) ==
    [language_code |-> lang, is_generated |-> generated,
     translated_from |-> "none"]

NoTrack == [language_code |-> "unbound"]

Unbound == "unbound"

\* the tracks a video can have: one manual and one generated per language
TrackUniverse ==
    {Track("ko", FALSE), Track("ko", TRUE), Track("en", FALSE),
     Track("en", TRUE), Track("ja", FALSE)}

Segment(text, start, duration) ==
    [text |-> text, start |-> start, duration |-> duration]

\* what fetch() can deliver: no segment at all, or timed segments in
\* playback order (starts 0 s, 59.9 s and 3725 s)
Segments ==
    <<Segment(<<"h", "i">>, 0, 21), Segment(<<"o", "k">>, 599, 30),
      Segment(<<"b", "y", "e">>, 37250, 15)>>

SegmentLists == {<<>>, Segments}

\* the behaviour of the caption service during one call
CaptionService(tracks, languages, list_fault, fetch_fault, data) ==
    [tracks |-> tracks, translation_languages |-> languages,
     list_fault |-> list_fault, fetch_fault |-> fetch_fault, data |-> data]

NoVideo == [list_fault |-> "unused"]

CaptionServices ==
    {CaptionService({}, {}, f, "none", <<>>) :
        f \in {"TranscriptsDisabled", "RequestException"}}
    \cup {CaptionService(ts, ls, "none", "RequestException", <<>>) :
            ts \in SUBSET TrackUniverse, ls \in {{}, {"ko"}, {"ja"}}}
    \cup {CaptionService(ts, ls, "none", "none", d) :
            ts \in SUBSET TrackUniverse, ls \in {{}, {"ko"}, {"ja"}},
            d \in SegmentLists}

\* TranscriptList.find_transcript(language_codes): for each code in order,
\* the manually created track of that language, else the generated one
RECURSIVE find_transcript(_, _)
find_transcript(tracks, language_codes) ==
    IF language_codes = <<>>
    THEN [exc |-> "NoTranscriptFound", transcript |-> NoTrack]
    ELSE LET code == Head(language_codes) IN
         IF Track(code, FALSE) \in tracks
         THEN [exc |-> "none", transcript |-> Track(code, FALSE)]
         ELSE IF Track(code, TRUE) \in tracks
         THEN [exc |-> "none", transcript |-> Track(code, TRUE)]
         ELSE find_transcript(tracks, Tail(language_codes))

\* find_transcript takes no keyword argument translation_languages
find_transcript_translation_languages(tracks, language_codes) ==
    [exc |-> "TypeError", transcript |-> NoTrack]

\* Transcript.translate(language_code)
translate(track, language_code, languages) ==
    IF languages = {}
    THEN [exc |-> "NotTranslatableError", transcript |-> NoTrack]
    ELSE IF language_code \notin languages
    THEN [exc |-> "TranslationLanguageNotAvailable", transcript |-> NoTrack]
    ELSE [exc |-> "none",
          transcript |-> [language_code |-> language_code,
                          is_generated |-> TRUE,
                          translated_from |-> track.language_code]]

\* TextFormatter.format_transcript
format_transcript(data) ==
    Join(<<"\n">>, [i \in 1..Len(data) |-> data[i].text])

(***************************************************************************)
(* get_video_transcript                                                    *)
(***************************************************************************)
Selected(track, flag) ==
    [exc |-> "none", transcript |-> track, is_auto_generated |-> flag]

NotSelected(e) ==
    [exc |-> e, transcript |-> NoTrack, is_auto_generated |-> Unbound]

\* the nested try blocks that choose the track
select_transcript(v) ==
    LET manual == find_transcript(v.tracks, <<"ko">>)
        auto == find_transcript_translation_languages(v.tracks, <<"ko">>)
        other == find_transcript(v.tracks, <<"en">>)
    IN IF manual.exc = "none" THEN Selected(manual.transcript, "False")
       ELSE IF auto.exc = "none" THEN Selected(auto.transcript, "True")
       ELSE IF other.exc # "none" THEN NotSelected(other.exc)
       ELSE LET translated ==
                    translate(other.transcript, "ko", v.translation_languages)
            IN IF translated.exc # "none" THEN NotSelected(translated.exc)
               ELSE Selected(translated.transcript, "True")

\* the message printed by the handler (Korean in the source: "an error
\* occurred while fetching the captions: " followed by str(e))
TranscriptError(e) ==
    [text |-> "transcript fetch error: ", detail |-> e]

Frame(sel, value, e, out) ==
    [transcript |-> sel.transcript,
     is_auto_generated |-> sel.is_auto_generated,
     ret |-> value, raised |-> e, printed |-> out]

transcript_except_reraises(sel, e) ==
    Frame(sel, NoValue, e, <<>>)

\* except Exception as e: print the diagnostic and return None
transcript_except(sel, e) ==
    IF IsException(e)
    THEN Frame(sel, PyNone, "none", <<TranscriptError(e)>>)
    ELSE Frame(sel, NoValue, e, <<>>)

get_video_transcript(v) ==
    IF v.list_fault # "none"
    THEN transcript_except(NotSelected(v.list_fault), v.list_fault)
    ELSE LET sel == select_transcript(v) IN
         IF sel.exc # "none" THEN transcript_except(sel, sel.exc)
         ELSE IF v.fetch_fault # "none"
         THEN transcript_except(sel, v.fetch_fault)
         ELSE Frame(sel, PyStr(format_transcript(v.data)), "none", <<>>)

(***************************************************************************)
(* get_transcript_with_timestamps                                          *)
(***************************************************************************)
\* obj[key] for a str key: only a dict accepts it
Subscript(obj, key) ==
    IF obj.t # "dict" THEN [exc |-> "TypeError", val |-> NoValue]
    ELSE IF key \notin DOMAIN obj.d THEN [exc |-> "KeyError", val |-> NoValue]
    ELSE [exc |-> "none", val |-> obj.d[key]]

\* the loop over the segments and the final join
timestamp_lines(segments) ==
    Join(<<"\n">>,
         [i \in 1..Len(segments) |->
            <<"[">> \o format_time(segments[i].start) \o <<"]", " ">>
                \o segments[i].text])

get_transcript_with_timestamps(v) ==
    LET r == get_video_transcript(v) IN
    IF r.raised # "none" THEN r
    ELSE IF Falsy(r.ret) THEN [r EXCEPT !.ret = PyNone]
    ELSE LET segments == Subscript(r.ret, "segments") IN
         IF segments.exc # "none"
         THEN [r EXCEPT !.ret = NoValue, !.raised = segments.exc]
         ELSE [r EXCEPT !.ret = PyStr(timestamp_lines(segments.val.items))]

(***************************************************************************)
(* LLM service (ChatOpenAI behind a prompt chain), as the code uses it     *)
(***************************************************************************)
DefaultMaxLength == 500

Absent == [t |-> "absent"]

\* a dict display with the three keys, a key left out when its value is
\* Absent
DictOf(summary, key_points, topics) ==
    LET given == [k \in {"summary", "key_points", "topics"} |->
                    CASE k = "summary" -> summary
                      [] k = "key_points" -> key_points
                      [] k = "topics" -> topics]
    IN PyDict([k \in {j \in DOMAIN given : given[j] # Absent} |-> given[k]])

SummaryValues == {Absent, PyStr(<<"s", "u", "m">>), PyNone}

KeyPointValues ==
    {Absent, PyList(<<PyStr(<<"a">>), PyStr(<<"b", "c">>)>>),
     PyStr(<<"a", "b">>), PyList(<<PyInt(7)>>), PyInt(7)}

TopicValues == {Absent, PyList(<<PyStr(<<"t">>)>>)}

\* the text of a reply (result.content), by the Python expression it is
Prose == [form |-> "prose"]

Identifier == [form |-> "identifier"]

ExitCall == [form |-> "exit()"]

\* an expression with a side effect, such as
\* __import__('os').system('touch owned'), whose value is the exit status 0
SystemCall == [form |-> "os.system()"]

Literal(v) == [form |-> "literal", value |-> v]

Replies ==
    {Prose, Identifier, ExitCall, SystemCall, Literal(PyInt(42))}
    \cup {Literal(DictOf(s, k, t)) :
            s \in SummaryValues, k \in KeyPointValues, t \in TopicValues}

\* the behaviour of the LLM service during one call
LLMService(construct_fault, invoke_fault, reply) ==
    [construct_fault |-> construct_fault, invoke_fault |-> invoke_fault,
     reply |-> reply]

NoLLM == [construct_fault |-> "unused"]

LLMServices ==
    {LLMService("ValidationError", "none", Prose),
     LLMService("none", "APIConnectionError", Prose)}
    \cup {LLMService("none", "none", r) : r \in Replies}

Prompt(text, max_length) == [transcript |-> text, max_length |-> max_length]

\* eval(result.content): the reply is compiled and run as a Python
\* expression in the interpreter of the caller
eval(reply) ==
    CASE reply.form = "prose" ->
            [exc |-> "SyntaxError", val |-> NoValue, ran |-> <<>>]
      [] reply.form = "identifier" ->
            [exc |-> "NameError", val |-> NoValue, ran |-> <<>>]
      [] reply.form = "exit()" ->
            [exc |-> "SystemExit", val |-> NoValue, ran |-> <<"exit()">>]
      [] reply.form = "os.system()" ->
            [exc |-> "none", val |-> PyInt(0), ran |-> <<"os.system()">>]
      [] reply.form = "literal" ->
            [exc |-> "none", val |-> reply.value, ran |-> <<>>]

\* the elements a for clause draws from a value
Iterate(v) ==
    CASE v.t = "list" -> [exc |-> "none", items |-> v.items]
      [] v.t = "str" ->
            [exc |-> "none",
             items |-> [i \in 1..Len(v.s) |-> PyStr(<<v.s[i]>>)]]
      [] OTHER -> [exc |-> "TypeError", items |-> <<>>]

\* the bullet character U+2022
Bullet == "(U+2022)"

bullet_lines_unprefixed(items) ==
    Join(<<"\n">>, [i \in 1..Len(items) |-> StrOf(items[i])])

\* "\n".join(f"<bullet> {x}" for x in items)
bullet_lines(items) ==
    Join(<<"\n">>,
         [i \in 1..Len(items) |-> <<Bullet, " ">> \o StrOf(items[i])])

\* the three placeholder texts of the fallback record (Korean in the
\* source), each kept in one piece
Fallback ==
    PyDict([k \in {"summary", "key_points", "topics"} |->
        CASE k = "summary" -> PyStr(<<"(summary cannot be generated)">>)
          [] k = "key_points" ->
                PyStr(<<"(key points cannot be extracted)">>)
          [] k = "topics" -> PyStr(<<"(topics cannot be extracted)">>)])

\* the message printed by the handler (Korean in the source: "an error
\* occurred while generating the summary: " followed by str(e))
SummaryError(e) == [text |-> "summary generation error: ", detail |-> e]

Outcome(value, e, out, clients, log, ran) ==
    [ret |-> value, raised |-> e, printed |-> out, llm_clients |-> clients,
     executed |-> ran,
     llm_log |-> log]

\* except Exception as e: print the diagnostic, return the fallback record
summary_except(e, clients, log, ran) ==
    IF IsException(e)
    THEN Outcome(Fallback, "none", <<SummaryError(e)>>, clients, log, ran)
    ELSE Outcome(NoValue, e, <<>>, clients, log, ran)

\* summary_dict[key] = "\n".join(... for x in summary_dict[key])
bullet_field(dict, key) ==
    LET field == Subscript(dict, key) IN
    IF field.exc # "none" THEN [exc |-> field.exc, val |-> NoValue]
    ELSE LET it == Iterate(field.val) IN
         IF it.exc # "none" THEN [exc |-> it.exc, val |-> NoValue]
         ELSE [exc |-> "none",
               val |-> PyDict([dict.d EXCEPT
                                 ![key] = PyStr(bullet_lines(it.items))])]

invoke_with_retry(l, prompt, log) ==
    IF l.invoke_fault # "none" THEN log \o <<prompt, prompt>>
    ELSE Append(log, prompt)

\* chain.invoke(...): one chat-completion request
invoke(l, prompt, log) == Append(log, prompt)

credential_is_none(key) == key.t = "None"

\* not OPENAI_API_KEY
credential_missing(key) == Falsy(key)

\* the try block of summarize_transcript
summarize_try(l, text, max_length, clients, log) ==
    LET sent == invoke(l, Prompt(text, max_length), log)
        parsed == eval(l.reply)
        points == bullet_field(parsed.val, "key_points")
        topics == bullet_field(points.val, "topics")
    IN IF l.invoke_fault # "none"
       THEN summary_except(l.invoke_fault, clients, sent, <<>>)
       ELSE IF parsed.exc # "none"
       THEN summary_except(parsed.exc, clients, sent, parsed.ran)
       ELSE IF points.exc # "none"
       THEN summary_except(points.exc, clients, sent, parsed.ran)
       ELSE IF topics.exc # "none"
       THEN summary_except(topics.exc, clients, sent, parsed.ran)
       ELSE Outcome(topics.val, "none", <<>>, clients, sent, parsed.ran)

summarize_transcript(key, l, text, max_length, clients, log) ==
    IF credential_missing(key)
    THEN Outcome(NoValue, "ValueError", <<>>, clients, log, <<>>)
    ELSE IF l.construct_fault # "none"
    THEN Outcome(NoValue, l.construct_fault, <<>>, clients + 1, log, <<>>)
    ELSE summarize_try(l, text, max_length, clients + 1, log)

(***************************************************************************)
(* analyze_video_content                                                   *)
(***************************************************************************)
analyze_video_content_none_only(key, v, l, clients, log) ==
    LET r == get_video_transcript(v) IN
    IF r.raised # "none" \/ r.ret.t = "None"
    THEN [transcript |-> r, summary |-> Outcome(IF r.raised # "none" THEN NoValue ELSE PyNone,
                                   r.raised, r.printed, clients, log, <<>>)]
    ELSE LET s == summarize_transcript(key, l, r.ret, DefaultMaxLength,
                                       clients, log)
         IN [transcript |-> r,
             summary |-> [s EXCEPT !.printed = r.printed \o s.printed]]

analyze_video_content(key, v, l, clients, log) ==
    LET r == get_video_transcript(v) IN
    IF r.raised # "none" \/ Falsy(r.ret)
    THEN [transcript |-> r, summary |-> Outcome(IF r.raised # "none" THEN NoValue ELSE PyNone,
                                   r.raised, r.printed, clients, log, <<>>)]
    ELSE LET s == summarize_transcript(key, l, r.ret, DefaultMaxLength,
                                       clients, log)
         IN [transcript |-> r,
             summary |-> [s EXCEPT !.printed = r.printed \o s.printed]]

(***************************************************************************)
(* Inputs                                                                  *)
(***************************************************************************)
\* OPENAI_API_KEY unset, set to the empty string, or set
Credentials == {PyNone, PyStr(<<>>), PyStr(<<"s", "k">>)}

\* every offset up to MaxOffsetSeconds, whole or with a fraction of 0.9 s
Offsets == {10 * w + f : w \in 0..MaxOffsetSeconds, f \in {0, 9}}

SampleOffsets == {0, 599, 650, 37250}

SampleTrackSets == {{}, {Track("ko", FALSE)}, {Track("en", TRUE)}}

SampleServices ==
    {v \in CaptionServices :
        v.list_fault = "none" =>
            /\ v.tracks \in SampleTrackSets
            /\ v.translation_languages = {"ko"}}

TranscriptTexts == {PyStr(<<>>), PyStr(format_transcript(Segments))}

NoSeconds == -1

(***************************************************************************)
(* State machine                                                           *)
(***************************************************************************)
\* the state at import, with the arguments of a first call
Start(v, s) ==
    /\ OPENAI_API_KEY \in Credentials
    /\ llm_clients = 0
    /\ llm_log = <<>>
    /\ fn = "none"
    /\ video = v
    /\ seconds = s
    /\ transcript_text = NoValue
    /\ llm = NoLLM
    /\ transcript = NoTrack
    /\ is_auto_generated = Unbound
    /\ ret = NoValue
    /\ raised = "none"
    /\ printed = <<>>
    /\ executed = <<>>

Init == Start(NoVideo, NoSeconds)

FormatTime(s) ==
    /\ fn' = "format_time"
    /\ seconds' = s
    /\ ret' = PyStr(format_time(s))
    /\ raised' = "none"
    /\ printed' = <<>>
    /\ executed' = <<>>
    /\ video' = NoVideo
    /\ transcript_text' = NoValue
    /\ llm' = NoLLM
    /\ transcript' = NoTrack
    /\ is_auto_generated' = Unbound
    /\ UNCHANGED <<OPENAI_API_KEY, llm_clients, llm_log>>

GetVideoTranscript(v) ==
    LET r == get_video_transcript(v) IN
    /\ fn' = "get_video_transcript"
    /\ video' = v
    /\ transcript' = r.transcript
    /\ is_auto_generated' = r.is_auto_generated
    /\ ret' = r.ret
    /\ raised' = r.raised
    /\ printed' = r.printed
    /\ executed' = <<>>
    /\ seconds' = NoSeconds
    /\ transcript_text' = NoValue
    /\ llm' = NoLLM
    /\ UNCHANGED <<OPENAI_API_KEY, llm_clients, llm_log>>

GetTranscriptWithTimestamps(v) ==
    LET r == get_transcript_with_timestamps(v) IN
    /\ fn' = "get_transcript_with_timestamps"
    /\ video' = v
    /\ transcript' = r.transcript
    /\ is_auto_generated' = r.is_auto_generated
    /\ ret' = r.ret
    /\ raised' = r.raised
    /\ printed' = r.printed
    /\ executed' = <<>>
    /\ seconds' = NoSeconds
    /\ transcript_text' = NoValue
    /\ llm' = NoLLM
    /\ UNCHANGED <<OPENAI_API_KEY, llm_clients, llm_log>>

SummarizeTranscript(text, l) ==
    LET r == summarize_transcript(OPENAI_API_KEY, l, text, DefaultMaxLength,
                                  llm_clients, llm_log)
    IN /\ llm_clients < MaxClients
       /\ fn' = "summarize_transcript"
       /\ transcript_text' = text
       /\ llm' = l
       /\ ret' = r.ret
       /\ raised' = r.raised
       /\ printed' = r.printed
       /\ executed' = r.executed
       /\ llm_clients' = r.llm_clients
       /\ llm_log' = r.llm_log
       /\ video' = NoVideo
       /\ seconds' = NoSeconds
       /\ transcript' = NoTrack
       /\ is_auto_generated' = Unbound
       /\ UNCHANGED OPENAI_API_KEY

AnalyzeVideoContent(v, l) ==
    LET r == analyze_video_content(OPENAI_API_KEY, v, l, llm_clients, llm_log)
    IN /\ llm_clients < MaxClients
       /\ fn' = "analyze_video_content"
       /\ video' = v
       /\ llm' = l
       /\ transcript' = r.transcript.transcript
       /\ is_auto_generated' = r.transcript.is_auto_generated
       /\ transcript_text' = r.transcript.ret
       /\ ret' = r.summary.ret
       /\ raised' = r.summary.raised
       /\ printed' = r.summary.printed
       /\ executed' = r.summary.executed
       /\ llm_clients' = r.summary.llm_clients
       /\ llm_log' = r.summary.llm_log
       /\ seconds' = NoSeconds
       /\ UNCHANGED OPENAI_API_KEY

Next ==
    \/ \E s \in SampleOffsets : FormatTime(s)
    \/ \E v \in SampleServices : GetVideoTranscript(v)
    \/ \E v \in SampleServices : GetTranscriptWithTimestamps(v)
    \/ \E text \in TranscriptTexts, l \in LLMServices :
            SummarizeTranscript(text, l)
    \/ \E v \in SampleServices, l \in LLMServices : AnalyzeVideoContent(v, l)

Spec == Init /\ [][Next]_vars

\* format_time alone, applied to any one offset
InitTime == \E s \in Offsets : Start(NoVideo, s)

NextTime == fn = "none" /\ FormatTime(seconds)

SpecTime == InitTime /\ [][NextTime]_vars

\* the transcript functions alone, applied to any one behaviour of the
\* caption service
InitTranscript == \E v \in CaptionServices : Start(v, NoSeconds)

NextTranscript ==
    \/ fn = "none" /\ GetVideoTranscript(video)
    \/ fn = "none" /\ GetTranscriptWithTimestamps(video)

SpecTranscript == InitTranscript /\ [][NextTranscript]_vars

(***************************************************************************)
(* Properties                                                              *)
(***************************************************************************)
KoTracks(v) == {tr \in v.tracks : tr.language_code = "ko"}

EnTracks(v) == {tr \in v.tracks : tr.language_code = "en"}

\* the listing, the selection or the fetch cannot deliver a caption track
NoCaptionObtainable(v) ==
    \/ v.list_fault # "none"
    \/ v.fetch_fault # "none"
    \/ v.tracks = {}
    \/ /\ KoTracks(v) = {}
       /\ EnTracks(v) = {} \/ "ko" \notin v.translation_languages

\* C1: get_video_transcript walks the fallback chain in order: a manual ko
\* track is chosen with auto_generated false whenever there is one; with a
\* generated ko track and no manual one, the generated track is chosen and
\* auto_generated is true; with only an en track, its translation into ko
\* is chosen and auto_generated is true.
C1_FallbackOrder ==
    fn = "get_video_transcript" /\ video.list_fault = "none" =>
        /\ Track("ko", FALSE) \in video.tracks =>
                transcript = Track("ko", FALSE) /\ is_auto_generated = "False"
        /\ KoTracks(video) = {Track("ko", TRUE)} =>
                transcript = Track("ko", TRUE) /\ is_auto_generated = "True"
        /\ (/\ KoTracks(video) = {}
            /\ EnTracks(video) # {}
            /\ "ko" \in video.translation_languages) =>
                /\ transcript.language_code = "ko"
                /\ transcript.translated_from = "en"
                /\ is_auto_generated = "True"

\* C2: when no caption track can be found or fetched, get_video_transcript
\* returns None after printing one diagnostic, and raises nothing.
C2_UnavailableIsNone ==
    fn = "get_video_transcript" /\ NoCaptionObtainable(video) =>
        ret = PyNone /\ raised = "none" /\ Len(printed) = 1

C2_Witness ==
    /\ fn = "get_video_transcript"
    /\ video.list_fault = "none"
    /\ video.tracks = {}
    /\ ret = PyNone
    /\ Len(printed) = 1

TwoDigits(n) == <<Digit(n \div 10), Digit(n % 10)>>

\* the time code the specification gives for an offset in tenths of a
\* second: the fraction is dropped, hours are left out below one hour
ExpectedTimecode(tenths) ==
    LET whole == tenths \div 10
        HH == whole \div 3600
        MM == (whole % 3600) \div 60
        SS == whole % 60
    IN IF whole >= 3600
       THEN TwoDigits(HH) \o <<":">> \o TwoDigits(MM) \o <<":">> \o TwoDigits(SS)
       ELSE TwoDigits(MM) \o <<":">> \o TwoDigits(SS)

\* C3: format_time drops the fraction and gives HH:MM:SS from one hour on
\* and MM:SS below, two digits per field; 0 -> 00:00, 65 -> 01:05,
\* 3725 -> 01:02:05, 59.9 -> 00:59.
C3_FormatTime ==
    fn = "format_time" =>
        /\ raised = "none"
        /\ ret = PyStr(ExpectedTimecode(seconds))
        /\ seconds = 0 => ret.s = <<"0", "0", ":", "0", "0">>
        /\ seconds = 650 => ret.s = <<"0", "1", ":", "0", "5">>
        /\ seconds = 37250 =>
                ret.s = <<"0", "1", ":", "0", "2", ":", "0", "5">>
        /\ seconds = 599 => ret.s = <<"0", "0", ":", "5", "9">>

C3_Witness ==
    /\ fn = "format_time"
    /\ seconds = 37259
    /\ ret.s = <<"0", "1", ":", "0", "2", ":", "0", "5">>

ExpectedLine(segment) ==
    <<"[">> \o ExpectedTimecode(segment.start) \o <<"]", " ">> \o segment.text

RECURSIVE ExpectedLines(_)
ExpectedLines(data) ==
    IF Len(data) = 1 THEN ExpectedLine(data[1])
    ELSE ExpectedLines(SubSeq(data, 1, Len(data) - 1)) \o <<"\n">>
            \o ExpectedLine(data[Len(data)])

\* C4: get_transcript_with_timestamps returns one line "[timecode] text" per
\* segment, in order, joined by newlines, when the transcript resolves, and
\* None when it is unavailable; no exception reaches the caller.
C4_TimestampedText ==
    fn = "get_transcript_with_timestamps" =>
        /\ raised = "none"
        /\ NoCaptionObtainable(video) => ret = PyNone
        /\ ~NoCaptionObtainable(video) /\ video.data # <<>> =>
                ret = PyStr(ExpectedLines(video.data))

CredentialSet == OPENAI_API_KEY.t = "str" /\ OPENAI_API_KEY.s # <<>>

\* the call got as far as the chat-completion request and its reply
ReplyReceived ==
    /\ CredentialSet
    /\ llm.construct_fault = "none"
    /\ llm.invoke_fault = "none"

IsListOfStr(v) ==
    v.t = "list" /\ \A i \in 1..Len(v.items) : v.items[i].t = "str"

\* the reply is an object of the requested shape
Conforms(reply) ==
    /\ reply.form = "literal"
    /\ reply.value.t = "dict"
    /\ {"summary", "key_points", "topics"} \subseteq DOMAIN reply.value.d
    /\ reply.value.d["summary"].t = "str"
    /\ IsListOfStr(reply.value.d["key_points"])
    /\ IsListOfStr(reply.value.d["topics"])

\* C5: a reply that is not of the requested shape (malformed, prose, a key
\* missing, a value of the wrong type) makes summarize_transcript return the
\* fallback record, with a diagnostic and without an exception.
C5_ParseFailureFallback ==
    (/\ fn = "summarize_transcript"
     /\ ReplyReceived
     /\ llm.reply.form \in {"prose", "identifier", "literal"}
     /\ ~Conforms(llm.reply)) =>
        ret = Fallback /\ raised = "none" /\ Len(printed) = 1

RECURSIVE ExpectedBullets(_)
ExpectedBullets(items) ==
    IF items = <<>> THEN <<>>
    ELSE LET n == Len(items)
             line == <<Bullet, " ">> \o items[n].s
         IN IF n = 1 THEN line
            ELSE ExpectedBullets(SubSeq(items, 1, n - 1)) \o <<"\n">> \o line

\* C6: for a reply of the requested shape, summarize_transcript returns the
\* parsed summary unchanged, and key_points and topics as their items in
\* order, each after a bullet and a space, joined by newlines.
C6_SuccessRecord ==
    fn = "summarize_transcript" /\ ReplyReceived /\ Conforms(llm.reply) =>
        /\ raised = "none"
        /\ ret.t = "dict"
        /\ DOMAIN ret.d = DOMAIN llm.reply.value.d
        /\ ret.d["summary"] = llm.reply.value.d["summary"]
        /\ ret.d["key_points"] =
                PyStr(ExpectedBullets(llm.reply.value.d["key_points"].items))
        /\ ret.d["topics"] =
                PyStr(ExpectedBullets(llm.reply.value.d["topics"].items))

C6_Witness ==
    /\ fn = "summarize_transcript"
    /\ ReplyReceived
    /\ Conforms(llm.reply)
    /\ ret.t = "dict"
    /\ ret.d["summary"] = PyStr(<<"s", "u", "m">>)
    /\ ret.d["key_points"] =
            PyStr(<<Bullet, " ", "a", "\n", Bullet, " ", "b", "c">>)
    /\ ret.d["topics"] = PyStr(<<Bullet, " ", "t">>)

\* C7: every record summarize_transcript returns has the three fields
\* summary, key_points and topics, each a string.
C7_ThreeStringFields ==
    fn = "summarize_transcript" /\ raised = "none" =>
        /\ ret.t = "dict"
        /\ {"summary", "key_points", "topics"} \subseteq DOMAIN ret.d
        /\ \A k \in {"summary", "key_points", "topics"} :
                k \in DOMAIN ret.d => ret.d[k].t = "str"

\* C8: without a credential, summarize_transcript fails at once with the
\* reported error, returns no record, and no LLM client is constructed and
\* no request is issued.
C8_CredentialMissing ==
    ~CredentialSet =>
        /\ llm_clients = 0
        /\ llm_log = <<>>
        /\ fn = "summarize_transcript" =>
                raised = "ValueError" /\ ret = NoValue /\ printed = <<>>

C8_Witness ==
    /\ fn = "summarize_transcript"
    /\ OPENAI_API_KEY = PyStr(<<>>)
    /\ raised = "ValueError"
    /\ llm_clients = 0

\* the call entered summarize_transcript
SummarizeEntered ==
    \/ fn = "summarize_transcript"
    \/ /\ fn = "analyze_video_content"
       /\ transcript_text.t = "str"
       /\ transcript_text.s # <<>>

\* C9: with a credential, a failure of the LLM service (constructing the
\* client, or the request) is recovered in summarize_transcript: the
\* fallback record and a message, and no exception for the caller.
C9_LLMFailureRecovered ==
    (/\ SummarizeEntered
     /\ CredentialSet
     /\ llm.construct_fault # "none" \/ llm.invoke_fault # "none") =>
        ret = Fallback /\ raised = "none" /\ printed # <<>>

\* C10: a call of summarize_transcript issues at most one chat-completion
\* request, also after a failed request or parse, and a call with a
\* credential and a client issues its own request whatever was asked before.
C10_OneRequestPerCall ==
    [][/\ Len(llm_log') <= Len(llm_log) + 1
       /\ (/\ fn' = "summarize_transcript"
           /\ CredentialSet
           /\ llm'.construct_fault = "none") =>
                llm_log' =
                    Append(llm_log, Prompt(transcript_text', DefaultMaxLength))]_vars

C10_Witness ==
    /\ fn = "summarize_transcript"
    /\ Len(llm_log) = 2
    /\ llm_log[1] = llm_log[2]
    /\ llm.invoke_fault = "none"

\* C11: summarize_transcript treats the reply as inert data: whatever the
\* reply is, no code of it is run, the interpreter is not terminated, and
\* the call ends in the parsed record or in the fallback record.
C11_ReplyIsInertData ==
    fn = "summarize_transcript" /\ ReplyReceived =>
        /\ executed = <<>>
        /\ raised = "none"
        /\ ret = Fallback \/ ret.t = "dict"

\* the caption service delivers no text: no track, a fault, or no segment
NoTextObtainable(v) == NoCaptionObtainable(v) \/ v.data = <<>>

\* C12: analyze_video_content resolves the transcript first and calls the
\* LLM only with a non-empty text: when the transcript is None or the empty
\* string it returns None, constructs no client, issues no request and
\* checks no credential; a request it issues carries the resolved text.
C12_SummarizeOnlyWithText ==
    [][fn' = "analyze_video_content" =>
        /\ NoTextObtainable(video') =>
                /\ ret' = PyNone
                /\ raised' = "none"
                /\ llm_clients' = llm_clients
                /\ llm_log' = llm_log
        /\ llm_log' # llm_log =>
                /\ ~NoTextObtainable(video')
                /\ llm_log' =
                    Append(llm_log,
                           Prompt(PyStr(Join(<<"\n">>,
                                    [i \in 1..Len(video'.data) |->
                                        video'.data[i].text])),
                                  DefaultMaxLength))]_vars

C12_Witness ==
    /\ fn = "analyze_video_content"
    /\ ~CredentialSet
    /\ video.list_fault = "none"
    /\ video.fetch_fault = "none"
    /\ Track("ko", FALSE) \in video.tracks
    /\ video.data = <<>>
    /\ transcript_text = PyStr(<<>>)
    /\ ret = PyNone
    /\ raised = "none"

====
